---- MODULE Spec2Model ----
(***************************************************************************)
(* Address tagging pipeline of geo_ner/address_parser.py:                  *)
(* find_address_candidates -> parse_address_with_shipengine (remote call   *)
(* with the regex fallback _mock_address_validation) -> is_valid_address   *)
(* -> tag_addresses_in_text.                                               *)
(*                                                                         *)
(* A text is a sequence of lexemes.  A lexeme is a maximal run of letters, *)
(* a maximal run of digits, one punctuation or blank character, or one of  *)
(* the two address tags.  No word of the vocabulary contains a street      *)
(* suffix keyword inside it, so every match of the program's regular       *)
(* expressions begins and ends between two lexemes, and matching lexeme by *)
(* lexeme gives the spans that matching character by character gives.      *)
(* Lengths are counted in characters (Len of the lexeme's string).         *)
(***************************************************************************)
EXTENDS Integers, Sequences, FiniteSets, TLC

VARIABLES
    mock_mode,      \* AddressParser.mock_mode
    text,           \* the argument of tag_addresses_in_text
    pc,             \* position inside tag_addresses_in_text
    candidates,     \* find_address_candidates(text)
    idx,            \* index of the candidate the loop is at (1-based)
    tagged_text,    \* the local tagged_text / the returned string
    call,           \* a direct parse_address_with_shipengine(text) call: what it met and did
    valid,          \* what is_valid_address made of that call's result
    invocations,    \* the Validator calls of this tag_addresses_in_text pass, in order,
                    \* kept when the pass is traced
    geocoded_text,  \* the argument of transform_xml_to_html_links
    html_text,      \* its local html_text / the returned string
    config_cache,   \* config._CONFIG_CACHE
    config_file,    \* what is at config.CONFIG_FILE
    thread,         \* each thread's position in load_config, with its force, text and result
    reads,          \* how many times CONFIG_FILE.read_text was called
    created,        \* how many dict objects load_config has made
    calls,          \* how many times load_config was called
    model_call      \* each thread's get_spacy_model_name call: position, override, result

tagger_vars == <<mock_mode, text, pc, candidates, idx, tagged_text, call, valid, invocations>>
render_vars == <<geocoded_text, html_text>>
config_vars == <<config_cache, config_file, thread, reads, created, calls, model_call>>
vars == <<tagger_vars, render_vars, config_vars>>

(***************************************************************************)
(* Lexemes                                                                 *)
(***************************************************************************)
Letters ==
    {"Evergreen", "Anytown", "Street", "Court", "CA", "PO", "Box", "evergreen", "street"}
Digits == {"123", "90210", "123456"}
Blank == {" "}
OpenTag == "<address>"
CloseTag == "</address>"
Lexemes == Letters \cup Digits \cup Blank \cup {",", ";", ".", "-", OpenTag, CloseTag}

\* str.lower() on one lexeme
Lower(t) ==
    CASE t = "Evergreen" -> "evergreen"
      [] t = "Anytown" -> "anytown"
      [] t = "Street" -> "street"
      [] t = "Court" -> "court"
      [] t = "CA" -> "ca"
      [] t = "PO" -> "po"
      [] t = "Box" -> "box"
      [] OTHER -> t

\* len(s) in characters
RECURSIVE CharLen(_)
CharLen(s) == IF s = <<>> THEN 0 ELSE Len(Head(s)) + CharLen(Tail(s))

\* \w at both ends of the lexeme
IsWord(t) == t \in Letters \cup Digits

\* \b at position i (i lexemes lie to the left of it)
Boundary(s, i) ==
    (i > 0 /\ IsWord(s[i])) # (i < Len(s) /\ IsWord(s[i + 1]))

\* s[i:j] of Python, positions counted in lexemes
Slice(s, i, j) == SubSeq(s, i + 1, j)

\* str.strip(): leading and trailing blanks removed
RECURSIVE LStrip(_)
LStrip(s) == IF s # <<>> /\ Head(s) \in Blank THEN LStrip(Tail(s)) ELSE s
RECURSIVE RStrip(_)
RStrip(s) ==
    IF s # <<>> /\ s[Len(s)] \in Blank THEN RStrip(SubSeq(s, 1, Len(s) - 1)) ELSE s
Strip(s) == RStrip(LStrip(s))

\* sub occurs in s at position i
OccursAt(sub, s, i) ==
    /\ i + Len(sub) <= Len(s)
    /\ \A k \in 1..Len(sub) : s[i + k] = sub[k]

\* Python's  sub in s
Contains(s, sub) == \E i \in 0..Len(s) : OccursAt(sub, s, i)

\* the positions sub occurs at in s
Occurrences(sub, s) == {i \in 0..Len(s) : sub # <<>> /\ OccursAt(sub, s, i)}

\* Python's  s.replace(old, new): every non-overlapping occurrence, left to right
RECURSIVE ReplaceFrom(_, _, _, _)
ReplaceFrom(s, old, new, i) ==
    IF i >= Len(s) THEN <<>>
    ELSE IF OccursAt(old, s, i)
         THEN new \o ReplaceFrom(s, old, new, i + Len(old))
         ELSE <<s[i + 1]>> \o ReplaceFrom(s, old, new, i + 1)
Replace(s, old, new) == IF old = <<>> THEN s ELSE ReplaceFrom(s, old, new, 0)

Min(S) == CHOOSE x \in S : \A y \in S : x <= y
Max(S) == CHOOSE x \in S : \A y \in S : x >= y

\* f"<address>{s}</address>"
Wrap(s) == <<OpenTag>> \o s \o <<CloseTag>>

(***************************************************************************)
(* Regular expressions.  A pattern is a sequence of elements:              *)
(*   B                     \b                                              *)
(*   One(S)                one lexeme of S (a keyword alternation)         *)
(*   Rep(S, lo, hi, g)     a run of lexemes of S of lo..hi characters      *)
(*   Many(S, lo, g)        a run of lexemes of S of lo or more characters  *)
(*   Led(F, S, lo, hi, g)  [F][S]{lo-1,hi-1}: a run whose first character  *)
(*                         is of F                                         *)
(*   Opt(p)                (?:p)?                                          *)
(* g is TRUE for a greedy quantifier and FALSE for a lazy one.  Matching   *)
(* is re's backtracking: the ends an element can reach are tried in the    *)
(* quantifier's order, and the first that lets the rest match wins.        *)
(***************************************************************************)
B == [k |-> "b"]
One(S) == [k |-> "one", set |-> S]
Rep(S, lo, hi, g) ==
    [k |-> "run", first |-> S, set |-> S, lo |-> lo, hi |-> hi, bounded |-> TRUE, greedy |-> g]
Many(S, lo, g) ==
    [k |-> "run", first |-> S, set |-> S, lo |-> lo, hi |-> lo, bounded |-> FALSE, greedy |-> g]
Led(F, S, lo, hi, g) ==
    [k |-> "run", first |-> F, set |-> S, lo |-> lo, hi |-> hi, bounded |-> TRUE, greedy |-> g]
Opt(p) == [k |-> "opt", sub |-> p]

\* the positions j >= i a run element can end at, in the order re tries them
RunEnds(el, s, i) ==
    LET n == Len(s)
        inrun(j) == /\ \A x \in (i + 1)..j : s[x] \in el.set
                    /\ j > i => s[i + 1] \in el.first
        chars(j) == CharLen(Slice(s, i, j))
        good(j) == /\ inrun(j)
                   /\ chars(j) >= el.lo
                   /\ el.bounded => chars(j) <= el.hi
        up == [x \in 1..(n - i + 1) |-> i + x - 1]
        down == [x \in 1..(n - i + 1) |-> n - x + 1]
    IN  SelectSeq(IF el.greedy THEN down ELSE up, good)

RECURSIVE Flatten(_)
Flatten(ss) == IF ss = <<>> THEN <<>> ELSE Head(ss) \o Flatten(Tail(ss))

RECURSIVE AllEnds(_, _, _, _)
\* the positions element el can end at when it starts at i, in priority order
Ends(el, s, i) ==
    CASE el.k = "b" -> IF Boundary(s, i) THEN <<i>> ELSE <<>>
      [] el.k = "one" -> IF i < Len(s) /\ s[i + 1] \in el.set THEN <<i + 1>> ELSE <<>>
      [] el.k = "run" -> RunEnds(el, s, i)
      [] el.k = "opt" -> AllEnds(el.sub, 1, s, i) \o <<i>>

\* every end of pat[k..] started at i, in priority order
AllEnds(pat, k, s, i) ==
    IF k > Len(pat) THEN <<i>>
    ELSE LET es == Ends(pat[k], s, i)
         IN  Flatten([x \in 1..Len(es) |-> AllEnds(pat, k + 1, s, es[x])])

RECURSIVE MatchEnd(_, _, _, _)
RECURSIVE FirstOf(_, _, _, _, _)
\* the end of the match of pat[k..] started at i, or -1 (re's match at a position)
MatchEnd(pat, k, s, i) ==
    IF k > Len(pat) THEN i ELSE FirstOf(pat, k, s, Ends(pat[k], s, i), 1)
FirstOf(pat, k, s, es, x) ==
    IF x > Len(es) THEN -1
    ELSE LET r == MatchEnd(pat, k + 1, s, es[x])
         IN  IF r # -1 THEN r ELSE FirstOf(pat, k, s, es, x + 1)

\* re.search from position i on: <<start, end>> of the leftmost match, or <<>>
RECURSIVE SearchFrom(_, _, _)
SearchFrom(pat, s, i) ==
    IF i > Len(s) THEN <<>>
    ELSE LET e == MatchEnd(pat, 1, s, i)
         IN  IF e # -1 THEN <<i, e>> ELSE SearchFrom(pat, s, i + 1)
Search(pat, s) == SearchFrom(pat, s, 0)
Found(pat, s) == Search(pat, s) # <<>>

\* re.finditer: the non-overlapping matches, left to right, as a sequence of spans
RECURSIVE FindIter(_, _, _)
FindIter(pat, s, i) ==
    LET m == SearchFrom(pat, s, i)
    IN  IF m = <<>> THEN <<>>
        ELSE <<m>> \o FindIter(pat, s, IF m[2] > m[1] THEN m[2] ELSE m[2] + 1)

(***************************************************************************)
(* Character classes and keyword alternations, as sets of lexemes.  A      *)
(* keyword alternation is the set of the vocabulary's lexemes it matches;  *)
(* IC gives the set under re.IGNORECASE.                                   *)
(***************************************************************************)
IC(K) == {t \in Lexemes : Lower(t) \in {Lower(k) : k \in K}}
AddrCls == Letters \cup Digits \cup Blank \cup {",", ".", "-"}   \* [A-Za-z0-9\s,.-]
NotStop == Lexemes \ {"."}                                       \* [^.!?]
LetSp == Letters \cup Blank                                      \* [A-Za-z\s]
CommaSp == {","} \cup Blank                                      \* [,\s]
AlnumDash == Letters \cup Digits \cup {"-"}                      \* [A-Za-z0-9-]
Upper == {"CA", "PO"}                                            \* lexemes of [A-Z]+
Dash4 == Opt(<<One({"-"}), Rep(Digits, 4, 4, TRUE)>>)            \* (?:-\d{4})?

(***************************************************************************)
(* Street suffix keywords of the alternations.  An abbreviation's optional *)
(* period (St\.?) is left out: no abbreviation is a lexeme of the          *)
(* vocabulary.                                                             *)
(***************************************************************************)
StreetKw ==
    {"Street", "St", "Avenue", "Ave", "Road", "Rd", "Lane", "Ln", "Drive", "Dr",
     "Boulevard", "Blvd"}
CourtKw == {"Circle", "Cir", "Court", "Ct", "Place", "Pl", "Way", "Parkway", "Pkwy"}
HighwayKw == {"Highway", "Hwy"}
UnitKw == {"Suite", "Ste", "Apt", "Apartment", "Unit", "#"}

(***************************************************************************)
(* JSON values and ValidationResults.  Every value is a record with a      *)
(* kind; a score is kept in tenths.                                        *)
(***************************************************************************)
None == [kind |-> "None"]
Missing == [kind |-> "missing"]
Num(v) == [kind |-> "num", v |-> v]
Address(line, city, state, zip) ==
    [kind |-> "dict", address_line1 |-> line, city_locality |-> city,
     state_province |-> state, postal_code |-> zip, country_code |-> "US"]
Dict(score, address, entities) ==
    [kind |-> "dict", score |-> score, address |-> address, entities |-> entities]

\* Python truthiness of a JSON value
Truthy(v) ==
    CASE v.kind \in {"None", "missing"} -> FALSE
      [] v.kind = "num" -> v.v # 0
      [] OTHER -> TRUE

(***************************************************************************)
(* _mock_address_validation                                                *)
(***************************************************************************)
NumberWeight == 3
StreetWeight == 4
CityStateZipWeight == 3
PoBoxWeight == 5

NumberRe == <<B, Rep(Digits, 1, 5, TRUE), B>>
StreetRe == <<B, One(IC(StreetKw)), B>>
CityStateZipRe ==
    <<B, Many(LetSp, 1, TRUE), One({","}), Many(Blank, 0, TRUE), Rep(Upper, 2, 2, TRUE),
      Many(Blank, 1, TRUE), Rep(Digits, 5, 5, TRUE), Dash4, B>>
PoBoxRe ==
    <<B, One(IC({"PO"})), Many(Blank, 1, TRUE), One(IC({"Box"})), Many(Blank, 1, TRUE),
      Many(Digits, 1, TRUE), B>>
AddrLineRe ==
    <<B, Rep(Digits, 1, 5, TRUE), Many(Blank, 1, TRUE), Many(AddrCls, 1, FALSE),
      One(IC(StreetKw \cup CourtKw))>>

has_number(s) == Found(NumberRe, s)
has_street(s) == Found(StreetRe, s)
has_city_state_zip(s) == Found(CityStateZipRe, s)
has_po_box(s) == Found(PoBoxRe, s)

\* a scorer that caps the confidence at 1.0
MockScoreCapped(s) ==
    Min({10,
         (IF has_number(s) THEN NumberWeight ELSE 0)
         + (IF has_street(s) THEN StreetWeight ELSE 0)
         + (IF has_city_state_zip(s) THEN CityStateZipWeight ELSE 0)
         + (IF has_po_box(s) THEN PoBoxWeight ELSE 0)})

\* score = 0.0, then += the weight of every signal present
MockScore(s) ==
    (IF has_number(s) THEN NumberWeight ELSE 0)
    + (IF has_street(s) THEN StreetWeight ELSE 0)
    + (IF has_city_state_zip(s) THEN CityStateZipWeight ELSE 0)
    + (IF has_po_box(s) THEN PoBoxWeight ELSE 0)

\* m.group().strip() of a match m, or "" without a match
StrippedGroup(s, m) == IF m = <<>> THEN <<>> ELSE Strip(Slice(s, m[1], m[2]))

\* address_line1 = addr_match.group().strip(), or ""
MockAddressLine(s) == StrippedGroup(s, Search(AddrLineRe, s))

\* the groups (city, state, zip) of a csz_match spanning i..e: the city runs to the
\* first comma, the state is the next lexeme that is no blank, the zip the rest
NonBlankFrom(s, x, e) == Min({y \in x..e : s[y] \notin Blank})
CszFrom(s, i, c, st, e) ==
    <<Strip(SubSeq(s, i + 1, c - 1)), <<s[st]>>, SubSeq(s, NonBlankFrom(s, st + 1, e), e)>>
CszAt(s, i, c, e) == CszFrom(s, i, c, NonBlankFrom(s, c + 1, e), e)
CszGroups(s, m) ==
    IF m = <<>> THEN <<<<>>, <<>>, <<>>>>
    ELSE CszAt(s, m[1], Min({x \in (m[1] + 1)..m[2] : s[x] = ","}), m[2])

\* city, state, postal_code = csz_match.group(1).strip(), group(2), group(3); "" each
\* without a match
MockCityStateZip(s) == CszGroups(s, Search(CityStateZipRe, s))

\* an offline result that carries an entity span
MockResultWithEntities(score, line, csz) ==
    Dict(Num(score), Address(line, csz[1], csz[2], csz[3]),
         <<[type |-> "address", start_index |-> [kind |-> "num", v |-> 0],
            end_index |-> [kind |-> "num", v |-> 10]]>>)

MockResult(score, line, csz) ==
    Dict(Num(score), Address(line, csz[1], csz[2], csz[3]), <<>>)

mock_address_validation(s) ==
    IF (has_number(s) /\ has_street(s)) \/ has_po_box(s)
    THEN MockResult(MockScore(s), MockAddressLine(s), MockCityStateZip(s))
    ELSE None

(***************************************************************************)
(* is_valid_address.  A value that is no dict where the code calls .get on *)
(* it, or a score that is no number where it is compared, raises.          *)
(***************************************************************************)
ConfidenceThreshold == 5

\* any(address.get(field) for field in optional_but_helpful)
has_additional_component(a) ==
    \/ a.city_locality # <<>>
    \/ a.state_province # <<>>
    \/ a.postal_code # <<>>

\* whether is_valid_address(r) raises: .get on an address that is no dict
\* (AttributeError), or >= on a score that is no number (TypeError)
IsValidRaises(r) ==
    /\ Truthy(r)
    /\ \/ r.kind # "dict"
       \/ /\ Truthy(r.address)
          /\ \/ r.address.kind # "dict"
             \/ /\ r.address.address_line1 # <<>>
                /\ has_additional_component(r.address)
                /\ r.score.kind \in {"None", "str"}

\* a validity test that does not ask for an address line
is_valid_without_line(r) ==
    IF ~Truthy(r) \/ r.kind # "dict" \/ ~Truthy(r.address) \/ r.address.kind # "dict"
    THEN FALSE
    ELSE LET score == IF r.score.kind = "num" THEN r.score.v ELSE 0
         IN  has_additional_component(r.address) /\ score >= ConfidenceThreshold

\* the value is_valid_address(r) returns when it does not raise
is_valid_address(r) ==
    IF ~Truthy(r) \/ r.kind # "dict" \/ ~Truthy(r.address) \/ r.address.kind # "dict"
    THEN FALSE
    ELSE IF r.address.address_line1 = <<>> THEN FALSE
    ELSE LET score == IF r.score.kind = "num" THEN r.score.v ELSE 0
         IN  has_additional_component(r.address) /\ score >= ConfidenceThreshold

(***************************************************************************)
(* find_address_candidates.  The four patterns run under re.IGNORECASE,    *)
(* so [A-Z]{2} is any two letters.  The state names of the first pattern   *)
(* and "Post Office Box" of the third are left out: none is made of        *)
(* lexemes of the vocabulary.                                              *)
(***************************************************************************)
MinCandidateLen == 15
SentenceMinLen == 20
RunMin == 5
RunMax == 50

CityStateZipTail ==
    <<Many(NotStop, 0, FALSE), Many(LetSp, 1, TRUE), Many(CommaSp, 1, TRUE),
      Rep(Letters, 2, 2, TRUE), Many(Blank, 1, TRUE), Rep(Digits, 5, 5, TRUE), Dash4>>
UnitGroup ==
    Opt(<<Many(Blank, 0, TRUE), Opt(<<One({","})>>), Many(Blank, 0, TRUE),
          One(IC(UnitKw)), Many(Blank, 0, TRUE), Many(AlnumDash, 1, TRUE)>>)
FullAddressRe ==
    <<B, Rep(Digits, 1, 5, TRUE), Many(Blank, 1, TRUE), Many(AddrCls, 1, FALSE),
      One(IC(StreetKw \cup CourtKw \cup HighwayKw)), B>> \o CityStateZipTail
SuiteAddressRe ==
    <<B, Rep(Digits, 1, 5, TRUE), Many(Blank, 1, TRUE), Many(AddrCls, 1, FALSE),
      One(IC(StreetKw \cup CourtKw)), UnitGroup>> \o CityStateZipTail
PoBoxAddressRe ==
    <<B, One(IC({"PO"})), Many(Blank, 1, TRUE), One(IC({"Box"})), Many(Blank, 1, TRUE),
      Many(Digits, 1, TRUE)>> \o CityStateZipTail
StreetOnlyRe ==
    <<B, Rep(Digits, 1, 5, TRUE), Many(Blank, 1, TRUE),
      Led(Letters, AddrCls, 1 + RunMin, 1 + RunMax, TRUE), One(IC(StreetKw))>>
address_patterns == <<FullAddressRe, SuiteAddressRe, PoBoxAddressRe, StreetOnlyRe>>

SentenceNumberRe == <<B, Rep(Digits, 1, 5, TRUE), One(Blank)>>
SentenceStreetRe == <<B, One(IC(StreetKw)), B>>

\* match.group().strip(), then re.sub(r'[,;]\s*$', '', candidate)
CleanCandidate(s) ==
    LET c == Strip(s)
    IN  IF c # <<>> /\ c[Len(c)] \in {",", ";"} THEN SubSeq(c, 1, Len(c) - 1) ELSE c

\* the candidates one pattern appends, in match order
PatternCandidates(pat, s) ==
    LET ms == FindIter(pat, s, 0)
        cs == [x \in 1..Len(ms) |-> CleanCandidate(Slice(s, ms[x][1], ms[x][2]))]
        long(c) == CharLen(c) > MinCandidateLen
    IN  SelectSeq(cs, long)

\* re.split(r'[.!?]+', text)
RECURSIVE SplitSentences(_, _)
SplitSentences(s, cur) ==
    IF s = <<>> THEN <<cur>>
    ELSE IF Head(s) = "."
         THEN IF Len(s) > 1 /\ s[2] = "."
              THEN SplitSentences(Tail(s), cur)
              ELSE <<cur>> \o SplitSentences(Tail(s), <<>>)
         ELSE SplitSentences(Tail(s), Append(cur, Head(s)))

\* a sentence heuristic that does not ask for a number
SentenceCandidatesByKeyword(s) ==
    LET ss == SplitSentences(s, <<>>)
        st == [x \in 1..Len(ss) |-> Strip(ss[x])]
        ok(c) == CharLen(c) > SentenceMinLen /\ Found(SentenceStreetRe, c)
    IN  SelectSeq(st, ok)

\* the sentences the heuristic appends
SentenceCandidates(s) ==
    LET ss == SplitSentences(s, <<>>)
        st == [x \in 1..Len(ss) |-> Strip(ss[x])]
        ok(c) == /\ CharLen(c) > SentenceMinLen
                 /\ Found(SentenceNumberRe, c)
                 /\ Found(SentenceStreetRe, c)
    IN  SelectSeq(st, ok)

\* re.sub(r'\s+', ' ', candidate.lower().strip())
RECURSIVE Collapse(_)
Collapse(s) ==
    IF s = <<>> THEN <<>>
    ELSE IF Head(s) \in Blank
         THEN <<" ">> \o Collapse(LStrip(s))
         ELSE <<Head(s)>> \o Collapse(Tail(s))
Normalize(c) == Collapse(Strip([x \in 1..Len(c) |-> Lower(c[x])]))

\* a deduplication by the candidates themselves, not by their normalized form
RECURSIVE UniqueExact(_, _)
UniqueExact(cs, seen) ==
    IF cs = <<>> THEN <<>>
    ELSE IF Head(cs) \notin seen /\ CharLen(Head(cs)) > MinCandidateLen
         THEN <<Head(cs)>> \o UniqueExact(Tail(cs), seen \cup {Head(cs)})
         ELSE UniqueExact(Tail(cs), seen)

\* "Remove duplicates while preserving order"
RECURSIVE Unique(_, _)
Unique(cs, seen) ==
    IF cs = <<>> THEN <<>>
    ELSE LET c == Head(cs)
         IN  IF Normalize(c) \notin seen /\ CharLen(c) > MinCandidateLen
             THEN <<c>> \o Unique(Tail(cs), seen \cup {Normalize(c)})
             ELSE Unique(Tail(cs), seen)

\* the list candidates before deduplication: the matches of the four patterns,
\* pattern after pattern, then the sentences
Pooled(s) ==
    Flatten([p \in 1..Len(address_patterns) |-> PatternCandidates(address_patterns[p], s)])
    \o SentenceCandidates(s)

\* the first index of x in the sequence q, 0 when x is not in q
IndexIn(q, x) == IF \E i \in 1..Len(q) : q[i] = x
                 THEN Min({i \in 1..Len(q) : q[i] = x}) ELSE 0

\* a scanner that returns its candidates sorted by where they first occur in the text
RECURSIVE SortByPosition(_, _)
SortByPosition(cs, s) ==
    IF cs = <<>> THEN <<>>
    ELSE LET at(x) == Min(Occurrences(cs[x], s))
             f == CHOOSE x \in 1..Len(cs) :
                      \A y \in 1..Len(cs) : at(x) < at(y) \/ (at(x) = at(y) /\ x <= y)
         IN  <<cs[f]>> \o SortByPosition(SelectSeq(cs, LAMBDA c : c # cs[f]), s)
find_candidates_by_position(s) == SortByPosition(Unique(Pooled(s), {}), s)

find_address_candidates(s) == Unique(Pooled(s), {})

(***************************************************************************)
(* The remote call.  requests.put either raises a RequestException         *)
(* (timeout, connection error) or returns a response with a status code    *)
(* and a body.  response.json() on a body that is no JSON raises           *)
(* requests.exceptions.JSONDecodeError, a RequestException, with           *)
(* requests >= 2.27 and a plain json.JSONDecodeError with an older         *)
(* requests: the body records which of the two the installed library       *)
(* raises.                                                                 *)
(***************************************************************************)
NoResponse == [kind |-> "none"]
Raised(e) == [kind |-> "exc", exc |-> e]
Http(status, body) == [kind |-> "http", status |-> status, body |-> body]
Malformed(cls) == [kind |-> "malformed", raises |-> cls]
Entity(type, start, end) == [type |-> type, start_index |-> start, end_index |-> end]

\* a 200 branch that sends every undecodable payload to the offline strategy
OnSuccessDecodeFallback(body) ==
    IF body.kind = "malformed" THEN "fallback"
    ELSE IF ~Truthy(body) THEN "none"
    ELSE IF body.kind # "dict" THEN "raise"
    ELSE IF Truthy(body.address) THEN "result"
    ELSE "none"

\* a 200 branch that sends a payload without address to the offline strategy
OnSuccessEmptyFallback(body) ==
    IF body.kind = "malformed"
    THEN IF body.raises = "requests.exceptions.JSONDecodeError" THEN "fallback" ELSE "none"
    ELSE IF ~Truthy(body) THEN "fallback"
    ELSE IF body.kind # "dict" THEN "raise"
    ELSE IF Truthy(body.address) THEN "result"
    ELSE "fallback"

\* lines 66-70: the status is 200
OnSuccess(body) ==
    IF body.kind = "malformed"
    THEN IF body.raises = "requests.exceptions.JSONDecodeError"
         THEN "fallback"            \* except requests.exceptions.RequestException
         ELSE "none"                \* except json.JSONDecodeError
    ELSE IF ~Truthy(body) THEN "none"
    ELSE IF body.kind # "dict" THEN "raise"         \* result.get: AttributeError
    ELSE IF Truthy(body.address) THEN "result"
    ELSE "none"

\* a call that gives up on an authentication failure instead of falling back
RouteWithoutAuthFallback(mode, resp) ==
    IF mode THEN "mock"
    ELSE IF resp.kind = "exc" THEN "fallback"
    ELSE IF resp.status = 200 THEN
        (IF resp.body.kind = "malformed"
         THEN IF resp.body.raises = "requests.exceptions.JSONDecodeError"
              THEN "fallback" ELSE "none"
         ELSE IF ~Truthy(resp.body) THEN "none"
         ELSE IF resp.body.kind # "dict" THEN "raise"
         ELSE IF Truthy(resp.body.address) THEN "result"
         ELSE "none")
    ELSE IF resp.status = 402 THEN "fallback"
    ELSE "none"

\* the way one call takes through lines 56-88
Route(mode, resp) ==
    IF mode THEN "mock"                                   \* line 58
    ELSE IF resp.kind = "exc" THEN "fallback"             \* line 84
    ELSE IF resp.status = 200 THEN OnSuccess(resp.body)   \* lines 67-70
    ELSE IF resp.status = 402 THEN "fallback"             \* line 74
    ELSE IF resp.status = 401 THEN "fallback"             \* line 77
    ELSE "none"                                           \* line 88

\* a call that sends the request again before it falls back
OutcomeWithRetry(way, s, resp) ==
    CASE way = "mock" ->
           [raised |-> FALSE, value |-> mock_address_validation(s), remote |-> 0, offline |-> 1]
      [] way = "fallback" ->
           [raised |-> FALSE, value |-> mock_address_validation(s), remote |-> 2, offline |-> 1]
      [] way = "result" -> [raised |-> FALSE, value |-> resp.body, remote |-> 1, offline |-> 0]
      [] way = "none" -> [raised |-> FALSE, value |-> None, remote |-> 1, offline |-> 0]
      [] way = "raise" -> [raised |-> TRUE, value |-> None, remote |-> 1, offline |-> 0]

\* what one call returns or raises, and how many remote requests and offline
\* evaluations it made
Outcome(way, s, resp) ==
    CASE way = "mock" ->
           [raised |-> FALSE, value |-> mock_address_validation(s), remote |-> 0, offline |-> 1]
      [] way = "fallback" ->
           [raised |-> FALSE, value |-> mock_address_validation(s), remote |-> 1, offline |-> 1]
      [] way = "result" -> [raised |-> FALSE, value |-> resp.body, remote |-> 1, offline |-> 0]
      [] way = "none" -> [raised |-> FALSE, value |-> None, remote |-> 1, offline |-> 0]
      [] way = "raise" -> [raised |-> TRUE, value |-> None, remote |-> 1, offline |-> 0]

parse_address_with_shipengine(mode, s, resp) == Outcome(Route(mode, resp), s, resp)

(***************************************************************************)
(* _extract_address_text_from_entities; offsets count lexemes.  "" stands  *)
(* for None: the caller only tests the result's truth.                     *)
(***************************************************************************)
FullTextMinLen == 10
AddressEntityTypes ==
    {"address", "address_line", "city_locality", "state_province", "postal_code"}

\* original_text[i:j] for 0 <= i, 0 <= j
PySlice(s, i, j) ==
    LET hi == IF j > Len(s) THEN Len(s) ELSE j
    IN  IF i >= hi THEN <<>> ELSE SubSeq(s, i + 1, hi)

\* the same without the .strip() of line 324
extract_address_text_unstripped(r, s) ==
    LET es == r.entities
        address_entities ==
            {x \in 1..Len(es) : /\ es[x].type \in AddressEntityTypes
                                /\ es[x].start_index.kind = "num"
                                /\ es[x].end_index.kind = "num"}
    IN  IF es = <<>> \/ address_entities = {} THEN <<>>
        ELSE LET min_start == Min({es[x].start_index.v : x \in address_entities})
                 max_end == Max({es[x].end_index.v : x \in address_entities})
                 address_text == PySlice(s, min_start, max_end)
             IN  IF /\ CharLen(address_text) > FullTextMinLen
                    /\ \E x \in 1..Len(address_text) : address_text[x] \in Digits
                 THEN address_text
                 ELSE <<>>

extract_address_text_from_entities(r, s) ==
    LET es == r.entities
        address_entities ==
            {x \in 1..Len(es) : /\ es[x].type \in AddressEntityTypes
                                /\ es[x].start_index.kind = "num"
                                /\ es[x].end_index.kind = "num"}
    IN  IF es = <<>> \/ address_entities = {} THEN <<>>
        ELSE LET min_start == Min({es[x].start_index.v : x \in address_entities})
                 max_end == Max({es[x].end_index.v : x \in address_entities})
                 address_text == Strip(PySlice(s, min_start, max_end))
             IN  IF /\ CharLen(address_text) > FullTextMinLen
                    /\ \E x \in 1..Len(address_text) : address_text[x] \in Digits
                 THEN address_text
                 ELSE <<>>

(***************************************************************************)
(* Inputs: the texts are the concatenations of at most MaxFrags fragments  *)
(* in which every lexeme is a maximal run; the responses of the remote     *)
(* service are drawn from Responses.                                       *)
(***************************************************************************)
MaxFrags == 3

StreetLine == <<"123", " ", "Evergreen", " ", "Street">>
CityStateZip == <<"Anytown", ",", " ", "CA", " ", "90210">>
Fragments ==
    {StreetLine \o <<",", " ">> \o CityStateZip,    \* a full address
     StreetLine \o <<",", " ">>,
     CityStateZip,
     <<"PO", " ", "Box", " ">>,
     <<".", " ">>,
     <<OpenTag>>,
     <<CloseTag>>}

\* every lexeme is a maximal run of letters or of digits
Maximal(s) ==
    \A x \in 1..(Len(s) - 1) :
        /\ ~(s[x] \in Letters /\ s[x + 1] \in Letters)
        /\ ~(s[x] \in Digits /\ s[x + 1] \in Digits)

\* the concatenations of at most MaxFrags fragments of F that are texts
TextsOf(F) ==
    {t \in {Flatten(fs) : fs \in UNION {[1..n -> F] : n \in 0..MaxFrags}} : Maximal(t)}

\* the texts given to tag_addresses_in_text, a blank one among them
Texts == TextsOf(Fragments) \cup {<<" ", " ">>}

\* the texts given to parse_address_with_shipengine directly: every combination of
\* the four signals of the offline scorer that a text can show
ValidatorFragments ==
    {<<"123">>,
     <<"123456">>,
     StreetLine,
     <<" ", "Street">>,
     <<" ", "Evergreen", " ", "Court">>,
     <<",", " ">> \o CityStateZip,
     <<"PO", " ", "Box", " ">>}
ValidatorTexts == TextsOf(ValidatorFragments)

Scores == {Missing, Num(4), Num(5), [kind |-> "str"]}
Addresses ==
    {Missing, [kind |-> "str"]}
    \cup {Address(l, c, <<>>, z) : l \in {<<>>, StreetLine},
                                   c \in {<<>>, <<"Anytown">>},
                                   z \in {<<>>, <<"90210">>}}
EntityLists ==
    {<<Entity("city_locality", Num(0), Num(1)), Entity("postal_code", Num(5), Num(6))>>,
     <<Entity("city_locality", Num(0), Num(1))>>,
     <<Entity("person", Num(0), Num(6))>>,
     <<Entity("postal_code", None, Num(6))>>,
     <<Entity("address", Num(1), Num(8))>>}
JsonBodies ==
    {None, [kind |-> "list"]}
    \cup {Dict(sc, a, <<>>) : sc \in Scores, a \in Addresses}
Bodies ==
    JsonBodies
    \cup {Malformed("requests.exceptions.JSONDecodeError"), Malformed("json.JSONDecodeError")}
Responses ==
    {Raised("Timeout"), Raised("ConnectionError")}
    \cup {Http(200, b) : b \in Bodies}
    \cup {Http(st, None) : st \in {401, 402, 404, 500}}

\* the responses met while tagging: one or more for every way through the call and
\* through is_valid_address
FullAddress == Address(StreetLine, <<"Anytown">>, <<>>, <<>>)
TaggerResponses ==
    {Raised("Timeout")}
    \cup {Http(st, None) : st \in {401, 402, 500}}
    \cup {Http(200, b) : b \in
             {Malformed("requests.exceptions.JSONDecodeError"),
              Malformed("json.JSONDecodeError"),
              None, [kind |-> "list"],
              Dict(Num(5), Missing, <<>>),
              Dict(Num(5), [kind |-> "str"], <<>>),
              Dict(Num(5), FullAddress, <<>>),
              Dict(Num(4), FullAddress, <<>>),
              Dict([kind |-> "str"], FullAddress, <<>>)}
             \cup {Dict(Num(5), FullAddress, es) : es \in EntityLists}}

\* the responses a call can meet, out of R: in mock mode no request is made
Outcomes(mode, R) == IF mode THEN {NoResponse} ELSE R

(***************************************************************************)
(* tag_addresses_in_text, one action per step of the method.               *)
(***************************************************************************)
NoCall == [text |-> <<>>, resp |-> NoResponse, raised |-> FALSE, value |-> None,
           remote |-> 0, offline |-> 0]
CallOf(s, resp, r) ==
    [text |-> s, resp |-> resp, raised |-> r.raised, value |-> r.value,
     remote |-> r.remote, offline |-> r.offline]

\* lines 255 and 275: one call of the Validator on s, with the remote requests and
\* the offline evaluations it made
Invocation(s, r) == [text |-> s, remote |-> r.remote, offline |-> r.offline]

\* no call made yet, in a pass that is not traced and in one that is
Untraced == [traced |-> FALSE, calls |-> <<>>]
Traced == [traced |-> TRUE, calls |-> <<>>]

\* invocations after a call on s that did r
Record(s, r) ==
    IF invocations.traced
    THEN [invocations EXCEPT !.calls = Append(@, Invocation(s, r))]
    ELSE invocations

\* "if parsed_response and self.is_valid_address(parsed_response)" raises
CheckRaises(r) == r.raised \/ (Truthy(r.value) /\ IsValidRaises(r.value))
\* a condition that takes any parsed response for a valid address
AcceptedUnchecked(r) == Truthy(r.value)

\* the value of that condition when nothing raises
Accepted(r) == Truthy(r.value) /\ is_valid_address(r.value)

\* s.replace(old, new, 1): the leftmost occurrence only
ReplaceFirst(s, old, new) ==
    IF Occurrences(old, s) = {} THEN s
    ELSE SubSeq(s, 1, Min(Occurrences(old, s))) \o new
         \o SubSeq(s, Min(Occurrences(old, s)) + Len(old) + 1, Len(s))

\* a tagger that wraps the leftmost occurrence only
TagFirstIn(t, c) == ReplaceFirst(t, c, Wrap(c))

\* a tagger that opens the marker and does not close it
TagOpenIn(t, c) == Replace(t, c, <<OpenTag>> \o c)

\* line 282 (and 262): wrap the occurrences of c in t
TagIn(t, c) == Replace(t, c, Wrap(c))

\* lines 277-283: the new tagged_text after a candidate was validated
TagCandidate(t, c) == IF ~Contains(t, Wrap(c)) THEN TagIn(t, c) ELSE t

\* what can be at config.CONFIG_FILE: nothing, a file that cannot be read, or lines
Absent == [kind |-> "absent"]
Unreadable == [kind |-> "unreadable"]
FileOf(lines) == [kind |-> "file", lines |-> lines]

\* the threads that can be in load_config
Threads == {1, 2}
\* a thread that is not in load_config
Idle == [pc |-> "idle", force |-> FALSE, text |-> <<>>, result |-> None]

\* a thread that is not in get_spacy_model_name
NoModelCall == [pc |-> "idle", override |-> None, model |-> ""]

\* config.py as imported and not used: line 16
ConfigIdle ==
    /\ config_cache = None
    /\ config_file = Absent
    /\ thread = [t \in Threads |-> Idle]
    /\ reads = 0
    /\ created = 0
    /\ calls = 0
    /\ model_call = [t \in Threads |-> NoModelCall]

Init ==
    /\ mock_mode \in BOOLEAN
    /\ text \in Texts
    /\ pc = "scan"
    /\ candidates = <<>>
    /\ idx = 0
    /\ tagged_text = <<>>
    /\ call = NoCall
    /\ invocations = Untraced
    /\ valid = "unknown"
    /\ geocoded_text = <<>>
    /\ html_text = <<>>
    /\ ConfigIdle

\* lines 246-252 and 267-268
Scan ==
    /\ pc = "scan"
    /\ IF text = <<>> \/ Strip(text) = <<>>
       THEN /\ pc' = "done"
            /\ tagged_text' = text
            /\ UNCHANGED <<candidates, idx>>
       ELSE /\ candidates' = find_address_candidates(text)
            /\ pc' = IF candidates' = <<>> THEN "fulltext" ELSE "loop"
            /\ idx' = 1
            /\ tagged_text' = text
    /\ UNCHANGED <<config_vars, render_vars, mock_mode, text, call, valid, invocations>>

\* lines 259-263: wrap the recovered span, if there is one
TagFullText(t, address_text) == IF address_text # <<>> THEN TagIn(t, address_text) ELSE t

\* lines 257-265, r being what the call at line 255 did
FullTextStep(r) ==
    IF CheckRaises(r)
    THEN pc' = "raised" /\ UNCHANGED tagged_text
    ELSE /\ pc' = "done"
         /\ tagged_text' =
                IF Accepted(r)
                THEN TagFullText(text, extract_address_text_from_entities(r.value, text))
                ELSE text

\* lines 253-265
FullText ==
    /\ pc = "fulltext"
    /\ \E resp \in Outcomes(mock_mode, TaggerResponses) :
         \E r \in {parse_address_with_shipengine(mock_mode, text, resp)} :
           /\ FullTextStep(r)
           /\ invocations' = Record(text, r)
    /\ UNCHANGED <<config_vars, render_vars, mock_mode, text, candidates, idx, call, valid>>

\* lines 277-283, r being what the call at line 275 did
CandidateStep(r) ==
    IF CheckRaises(r)
    THEN pc' = "raised" /\ UNCHANGED <<tagged_text, idx>>
    ELSE /\ pc' = "loop"
         /\ idx' = idx + 1
         /\ tagged_text' = IF Accepted(r)
                           THEN TagCandidate(tagged_text, candidates[idx])
                           ELSE tagged_text

\* lines 271-283: one iteration of the loop
Candidate ==
    /\ pc = "loop"
    /\ idx <= Len(candidates)
    /\ \E resp \in Outcomes(mock_mode, TaggerResponses) :
         \E r \in {parse_address_with_shipengine(mock_mode, candidates[idx], resp)} :
           /\ CandidateStep(r)
           /\ invocations' = Record(candidates[idx], r)
    /\ UNCHANGED <<config_vars, render_vars, mock_mode, text, candidates, call, valid>>

\* lines 285-290
Return ==
    /\ pc = "loop"
    /\ idx > Len(candidates)
    /\ pc' = "done"
    /\ UNCHANGED <<config_vars, render_vars, mock_mode, text, candidates, idx, tagged_text, call, valid, invocations>>

Next == Scan \/ FullText \/ Candidate \/ Return

Spec == Init /\ [][Next]_vars

(***************************************************************************)
(* The Validator on its own: parse_address_with_shipengine(text) called    *)
(* directly, then is_valid_address on what it returned.                    *)
(***************************************************************************)
ValidatorInit ==
    /\ mock_mode \in BOOLEAN
    /\ text \in ValidatorTexts
    /\ pc = "validate"
    /\ candidates = <<>>
    /\ idx = 0
    /\ tagged_text = <<>>
    /\ call = NoCall
    /\ invocations = Untraced
    /\ valid = "unknown"
    /\ geocoded_text = <<>>
    /\ html_text = <<>>
    /\ ConfigIdle

\* lines 46-88
Validate ==
    /\ pc = "validate"
    /\ \E resp \in Outcomes(mock_mode, Responses) :
         /\ call' = CallOf(text, resp, parse_address_with_shipengine(mock_mode, text, resp))
         /\ pc' = IF call'.raised THEN "raised" ELSE "returned"
    /\ UNCHANGED <<config_vars, render_vars, mock_mode, text, candidates, idx, tagged_text, valid, invocations>>

\* lines 146-175
IsValid ==
    /\ pc = "returned"
    /\ valid = "unknown"
    /\ valid' = IF IsValidRaises(call.value) THEN "raised"
                ELSE IF is_valid_address(call.value) THEN "yes" ELSE "no"
    /\ pc' = IF IsValidRaises(call.value) THEN "raised" ELSE pc
    /\ UNCHANGED <<config_vars, render_vars, mock_mode, text, candidates, idx, tagged_text, call, invocations>>

ValidatorNext == Validate \/ IsValid

ValidatorSpec == ValidatorInit /\ [][ValidatorNext]_vars

(***************************************************************************)
(* Properties of tag_addresses_in_text (Spec)                              *)
(***************************************************************************)
Returned == pc = "done"

\* the spans X that s holds wrapped once: <address>X</address> with X not empty
WrappedSpans(s) ==
    {SubSeq(s, i + 1, j - 1) : i \in {x \in 1..Len(s) : s[x] = OpenTag},
                               j \in {x \in 1..Len(s) : s[x] = CloseTag}}
    \ {<<>>}

\* C1: when the input holds <address>X</address> for a plausible address X (and
\* does not hold it doubly wrapped), the returned text never holds
\* <address><address>X</address></address>.
C1_NoDoubleWrap ==
    Returned =>
        \A X \in WrappedSpans(text) :
            ~Contains(text, Wrap(Wrap(X))) => ~Contains(tagged_text, Wrap(Wrap(X)))

\* the greatest number of address tags open at once in s, d being open before s
RECURSIVE MaxDepth(_, _)
MaxDepth(s, d) ==
    IF s = <<>> THEN d
    ELSE IF Head(s) = OpenTag THEN Max({d, MaxDepth(Tail(s), d + 1)})
    ELSE IF Head(s) = CloseTag THEN Max({d, MaxDepth(Tail(s), IF d > 0 THEN d - 1 ELSE 0)})
    ELSE MaxDepth(Tail(s), d)

HasTags(s) == \E x \in 1..Len(s) : s[x] \in {OpenTag, CloseTag}

\* C2: for an input without address tags, the returned text never holds an
\* address tag opened inside another address tag that is still open.
C2_NeverNested ==
    (Returned /\ ~HasTags(text)) => MaxDepth(tagged_text, 0) <= 1

\* one iteration of the loop has wrapped candidates[idx] in the text-so-far
Tagged == pc = "loop" /\ idx' = idx + 1 /\ tagged_text' # tagged_text

\* C3 as stated: when the candidate being tagged occurs two or more times in the
\* text-so-far, only its leftmost occurrence is wrapped.
C3_FirstOccurrenceOnly ==
    [][(Tagged /\ Cardinality(Occurrences(candidates[idx], tagged_text)) >= 2)
          => tagged_text' = ReplaceFirst(tagged_text, candidates[idx], Wrap(candidates[idx]))]_vars

\* the occurrence of c at i in s stands directly between an opening and a closing tag
Enclosed(s, c, i) ==
    /\ i >= 1
    /\ s[i] = OpenTag
    /\ i + Len(c) + 1 <= Len(s)
    /\ s[i + Len(c) + 1] = CloseTag

\* no two occurrences of c in s overlap
Apart(c, s) ==
    \A i, j \in Occurrences(c, s) : i < j => i + Len(c) <= j

\* C3 amended: when the candidate being tagged occurs k >= 1 times in the
\* text-so-far (no two occurrences overlapping), every one of the k occurrences
\* is wrapped, and nothing else changes.
C3_EveryOccurrenceWrapped ==
    [][(Tagged /\ Apart(candidates[idx], tagged_text))
          => /\ Cardinality(Occurrences(candidates[idx], tagged_text')) =
                    Cardinality(Occurrences(candidates[idx], tagged_text))
             /\ \A i \in Occurrences(candidates[idx], tagged_text') :
                    Enclosed(tagged_text', candidates[idx], i)
             /\ Len(tagged_text') =
                    Len(tagged_text) + 2 * Cardinality(Occurrences(candidates[idx], tagged_text))
             /\ Replace(tagged_text', Wrap(candidates[idx]), candidates[idx]) = tagged_text]_vars

\* a returned text in which one candidate, found twice in the input, is wrapped twice
C3_Witness ==
    /\ Returned
    /\ \E x \in 1..Len(candidates) :
         /\ Cardinality(Occurrences(candidates[x], text)) >= 2
         /\ Cardinality(Occurrences(Wrap(candidates[x]), tagged_text)) >= 2

\* C7: tag_addresses_in_text never raises, whatever the text and whatever the
\* remote endpoint answers.
C7_NeverRaises == pc # "raised"

(***************************************************************************)
(* Properties of parse_address_with_shipengine and is_valid_address        *)
(* (ValidatorSpec)                                                         *)
(***************************************************************************)
\* the call has been made without mock mode
RemoteCallDone == pc # "validate" /\ ~mock_mode

\* the call returned what _mock_address_validation returns for the same text
ReturnedOffline == ~call.raised /\ call.value = mock_address_validation(call.text)

Answered(st) == call.resp.kind = "http" /\ call.resp.status = st

\* C4: without mock mode, when the remote call ends in HTTP 401, HTTP 402, a
\* timeout or another transport error, the call raises nothing and returns
\* exactly what the offline strategy returns for the same text.
C4_FailureFallsBack ==
    (RemoteCallDone /\ (call.resp.kind = "exc" \/ Answered(401) \/ Answered(402)))
        => ReturnedOffline

\* a 401 answered to a text the offline strategy has a result for
C4_Witness ==
    /\ RemoteCallDone
    /\ Answered(401)
    /\ Truthy(call.value)
    /\ call.offline = 1

MalformedPayload == Answered(200) /\ call.resp.body.kind = "malformed"

C6_ServerErrorFallsBack ==
    (RemoteCallDone /\ call.resp.kind = "http" /\ call.resp.status \in 500..599)
        => ReturnedOffline

\* a 200 response whose payload is a JSON object or null
ObjectPayload == Answered(200) /\ call.resp.body.kind \in {"dict", "None"}

CarriesAddress(body) == body.kind = "dict" /\ Truthy(body.address)

\* C8: for a 200 response whose payload is a JSON object, a payload with a
\* non-empty address is returned as it is, and a payload without address gives
\* absent; neither consults the offline strategy.
C8_SuccessPayload ==
    (RemoteCallDone /\ ObjectPayload) =>
        /\ ~call.raised
        /\ call.offline = 0
        /\ call.value = IF CarriesAddress(call.resp.body) THEN call.resp.body ELSE None

\* a payload without address for a text the offline strategy has a result for
C8_Witness ==
    /\ RemoteCallDone
    /\ ObjectPayload
    /\ call.resp.body.kind = "dict"
    /\ ~CarriesAddress(call.resp.body)
    /\ call.value = None
    /\ Truthy(mock_address_validation(call.text))

(***************************************************************************)
(* The four signals of the offline scorer, read off the text lexeme by     *)
(* lexeme without the regular expressions.                                 *)
(***************************************************************************)
WordAt(s, x) == x \in 1..Len(s) /\ IsWord(s[x])
BlanksBetween(s, x, y) == \A k \in (x + 1)..(y - 1) : s[k] = " "

\* a number of one to five digits standing alone
ShowsNumber(s) ==
    \E x \in 1..Len(s) :
        s[x] \in Digits /\ Len(s[x]) <= 5 /\ ~WordAt(s, x - 1) /\ ~WordAt(s, x + 1)

\* a street suffix keyword standing alone
ShowsStreet(s) ==
    \E x \in 1..Len(s) : s[x] = "Street" /\ ~WordAt(s, x - 1) /\ ~WordAt(s, x + 1)

\* letters and blanks, a comma, a two-letter state, blanks, a five-digit ZIP
ShowsCityStateZip(s) ==
    \E a, k, u, z \in 1..Len(s) :
        /\ a < k /\ k < u /\ u + 1 < z
        /\ \A x \in a..(k - 1) : s[x] \in Letters \cup {" "}
        /\ WordAt(s, a - 1) # WordAt(s, a)
        /\ s[k] = ","
        /\ BlanksBetween(s, k, u)
        /\ s[u] \in {"CA", "PO"}
        /\ BlanksBetween(s, u, z)
        /\ s[z] \in Digits /\ Len(s[z]) = 5
        /\ ~WordAt(s, z + 1)

\* PO, blanks, Box, blanks, a number
ShowsPoBox(s) ==
    \E x, y, z \in 1..Len(s) :
        /\ x + 1 < y /\ y + 1 < z
        /\ s[x] = "PO" /\ ~WordAt(s, x - 1)
        /\ BlanksBetween(s, x, y)
        /\ s[y] = "Box"
        /\ BlanksBetween(s, y, z)
        /\ s[z] \in Digits /\ ~WordAt(s, z + 1)

\* the sum, in tenths, of the weights 0.3, 0.4, 0.3, 0.5 of the signals a text shows
WeightsShown(s) ==
    (IF ShowsNumber(s) THEN 3 ELSE 0) + (IF ShowsStreet(s) THEN 4 ELSE 0)
    + (IF ShowsCityStateZip(s) THEN 3 ELSE 0) + (IF ShowsPoBox(s) THEN 5 ELSE 0)

OfflineCallDone == pc # "validate" /\ call.offline = 1

\* C9: the offline scorer returns a result iff the text shows (a number and a
\* street keyword) or a PO box, and absent otherwise; the score of a result is
\* the sum of the weights 0.3, 0.4, 0.3, 0.5 of the signals shown, unclamped.
C9_OfflineScore ==
    OfflineCallDone =>
        /\ Truthy(call.value) <=>
               ((ShowsNumber(call.text) /\ ShowsStreet(call.text)) \/ ShowsPoBox(call.text))
        /\ Truthy(call.value) => call.value.score = Num(WeightsShown(call.text))

\* a text with all four signals, scored 1.5
C9_Witness ==
    /\ OfflineCallDone
    /\ ShowsNumber(call.text) /\ ShowsStreet(call.text)
    /\ ShowsCityStateZip(call.text) /\ ShowsPoBox(call.text)
    /\ call.value.score = Num(15)

\* is_valid_address has returned for the call's result
Judged == valid \in {"yes", "no"}

\* C10: a result is valid iff its address line is non-empty, one or more of
\* city, state and postal code is non-empty, and its score is 0.5 or more; a
\* result with an empty address line is never valid.
C10_ValidIff ==
    Judged =>
        (valid = "yes" <=>
            /\ call.value.kind = "dict"
            /\ call.value.address.kind = "dict"
            /\ call.value.address.address_line1 # <<>>
            /\ \/ call.value.address.city_locality # <<>>
               \/ call.value.address.state_province # <<>>
               \/ call.value.address.postal_code # <<>>
            /\ call.value.score.kind = "num"
            /\ call.value.score.v >= 5)

\* an offline PO-box result, scored 0.5 or more and with a city, that has no
\* address line and is not valid
C10_Witness ==
    /\ valid = "no"
    /\ call.offline = 1
    /\ ShowsPoBox(call.text)
    /\ Truthy(call.value)
    /\ call.value.address.address_line1 = <<>>
    /\ call.value.address.city_locality # <<>>
    /\ call.value.score.v >= 5

(***************************************************************************)
(* The scanner on its own: find_address_candidates(text) called directly,  *)
(* on texts that repeat an address in another case and spacing.            *)
(***************************************************************************)
ScannerFragments ==
    {StreetLine,
     <<"123", " ", " ", "evergreen", " ", "street">>,
     <<",", " ">> \o CityStateZip,
     <<"PO", " ", "Box", " ">>,
     <<".", " ">>,
     <<";", " ">>,
     <<" ", "Evergreen", " ", "Street">>}
ScannerTexts == TextsOf(ScannerFragments)

ScannerInit ==
    /\ mock_mode \in BOOLEAN
    /\ text \in ScannerTexts
    /\ pc = "find"
    /\ candidates = <<>>
    /\ idx = 0
    /\ tagged_text = <<>>
    /\ call = NoCall
    /\ invocations = Untraced
    /\ valid = "unknown"
    /\ geocoded_text = <<>>
    /\ html_text = <<>>
    /\ ConfigIdle

\* lines 177-234
FindCandidates ==
    /\ pc = "find"
    /\ candidates' = find_address_candidates(text)
    /\ pc' = "found"
    /\ UNCHANGED <<config_vars, render_vars, mock_mode, text, idx, tagged_text, call, valid, invocations>>

ScannerNext == FindCandidates

ScannerSpec == ScannerInit /\ [][ScannerNext]_vars

(***************************************************************************)
(* Properties of find_address_candidates (ScannerSpec)                     *)
(***************************************************************************)
CandidatesFound == pc = "found"

\* a span lowercased, stripped, its runs of blanks made one blank
RECURSIVE Squeeze(_)
Squeeze(s) ==
    IF Len(s) < 2 THEN s
    ELSE IF s[1] = " " /\ s[2] = " " THEN Squeeze(Tail(s))
    ELSE <<s[1]>> \o Squeeze(Tail(s))
NormalForm(c) == Squeeze(Strip([x \in 1..Len(c) |-> Lower(c[x])]))

\* the spans pooled that are long enough to be returned
Eligible(q) == {x \in 1..Len(q) : CharLen(q[x]) > 15}

\* the first eligible span of the pool q with the normal form of q[x]
FirstLike(q, x) ==
    q[Min({y \in Eligible(q) : NormalForm(q[y]) = NormalForm(q[x])})]

\* C11: no two returned candidates have the same normalized form; the matches of
\* all patterns and the sentences are pooled before deduplication, and of the
\* pooled spans with one normal form the first pooled is the one returned.
C11_UniqueNormalized ==
    CandidatesFound =>
        /\ \A i, j \in 1..Len(candidates) :
               i # j => NormalForm(candidates[i]) # NormalForm(candidates[j])
        /\ \A q \in {Pooled(text)} :
               {candidates[i] : i \in 1..Len(candidates)} =
                   {FirstLike(q, x) : x \in Eligible(q)}

\* two pooled spans that differ and have one normal form, the first of them returned
C11_Witness ==
    /\ CandidatesFound
    /\ \E q \in {Pooled(text)} :
         \E x, y \in Eligible(q) :
           /\ x < y
           /\ q[x] # q[y]
           /\ NormalForm(q[x]) = NormalForm(q[y])
           /\ IndexIn(candidates, q[x]) > 0
           /\ IndexIn(candidates, q[y]) = 0

\* C12 as stated: of two returned candidates, the one listed first occurs first
\* in the text (its first occurrence starts no later).
C12_OrderedByPosition ==
    CandidatesFound =>
        \A i, j \in 1..Len(candidates) :
            i < j => Min(Occurrences(candidates[i], text)) <=
                         Min(Occurrences(candidates[j], text))

\* C12 amended: the candidates are returned in the order they were pooled: the
\* matches of the first pattern in text order, then those of the second, the
\* third and the fourth pattern, then the sentences.
C12_OrderedAsPooled ==
    CandidatesFound =>
        \A q \in {Pooled(text)} :
            \A i, j \in 1..Len(candidates) :
                i < j => /\ IndexIn(q, candidates[i]) > 0
                         /\ IndexIn(q, candidates[i]) < IndexIn(q, candidates[j])

\* a match of the first pattern returned before the PO-box match that contains it
\* and starts before it
C12_Witness ==
    /\ CandidatesFound
    /\ \E i, j \in 1..Len(candidates) :
         /\ i < j
         /\ Min(Occurrences(candidates[i], text)) > Min(Occurrences(candidates[j], text))
         /\ candidates[j][1] = "PO"

HasDigit(s) == \E x \in 1..Len(s) : s[x] \in Digits

\* C13: for a text without digits, find_address_candidates returns the empty list.
C13_NoDigitNoCandidate == (CandidatesFound /\ ~HasDigit(text)) => candidates = <<>>

\* a text without digits, with a street keyword and longer than 20 characters
C13_Witness ==
    /\ CandidatesFound
    /\ ~HasDigit(text)
    /\ \E x \in 1..Len(text) : text[x] = "Street"
    /\ CharLen(Strip(text)) > 20
    /\ candidates = <<>>

(***************************************************************************)
(* transform_xml_to_html_links (geo_ner/tagged_text_to_geotext.py).  A     *)
(* geocoded text is a sequence of tokens: the lexemes of plain text, which *)
(* hold no "<", the opening tags of the three shapes, the closing tags,    *)
(* and the anchors the function writes.  Every token that is not plain     *)
(* text begins with "<", so [^<]+ is a run of one or more plain tokens.    *)
(***************************************************************************)
Kinds == {"GPE", "LOC", "address"}
Lats == {"none", "40.7"}
Lons == {"none", "-74.0"}
Zooms == {"none", "12"}

\* <K lat="LAT" lon="LON" zoom_level="Z">
OpenCurrent(K, lat, lon, zoom) ==
    "<" \o K \o " lat=\"" \o lat \o "\" lon=\"" \o lon \o "\" zoom_level=\"" \o zoom \o "\">"
\* <K lat="LAT" lon="LON">
OpenLegacy(K, lat, lon) == "<" \o K \o " lat=\"" \o lat \o "\" lon=\"" \o lon \o "\">"
\* <K>
OpenSimple(K) == "<" \o K \o ">"
\* </K>
Close(K) == "</" \o K \o ">"

\* the opening tags, with what the groups of a pattern capture from them
CurrentTags ==
    {[kind |-> K, lat |-> la, lon |-> lo, zoom |-> z, token |-> OpenCurrent(K, la, lo, z)] :
        K \in Kinds, la \in Lats, lo \in Lons, z \in Zooms}
LegacyTags ==
    {[kind |-> K, lat |-> la, lon |-> lo, token |-> OpenLegacy(K, la, lo)] :
        K \in Kinds, la \in Lats, lo \in Lons}
SimpleTags == {[kind |-> K, token |-> OpenSimple(K)] : K \in Kinds}
AddressTags == {[kind |-> "address", token |-> OpenSimple("address")]}

\* lines 51 and 53: the anchor's opening tag
Anchor(lat, lon, zoom) ==
    "<a href=\"https://www.arcgis.com/apps/mapviewer/index.html?center=" \o lon \o ","
    \o lat \o "&level=" \o zoom \o "&marker=" \o lon \o "," \o lat \o "\" target=\"_blank\">"
AnchorClose == "</a>"
LegacyZoom == "16"

\* the tokens that begin with "<"
OpenTokens == {t.token : t \in CurrentTags \cup LegacyTags \cup SimpleTags}
CloseTokens == {Close(K) : K \in Kinds}
AnchorTokens ==
    {Anchor(la, lo, z) : la \in Lats, lo \in Lons, z \in Zooms \cup {LegacyZoom}}
    \cup {AnchorClose}
Markup == OpenTokens \cup CloseTokens \cup AnchorTokens
Plain(tok) == tok \notin Markup

\* the position [^<]+ ends at when it starts at i: the plain tokens from i + 1 on
RECURSIVE PlainEnd(_, _)
PlainEnd(s, i) == IF i < Len(s) /\ Plain(s[i + 1]) THEN PlainEnd(s, i + 1) ELSE i

\* a match of <(K) ...>([^<]+)</\1> at i for an opening tag of the set tags:
\* the position it ends at, 0 when there is none
TagMatchEnd(tags, s, i) ==
    IF /\ \E t \in tags : t.token = s[i + 1]
       /\ PlainEnd(s, i + 1) > i + 1
       /\ PlainEnd(s, i + 1) < Len(s)
       /\ s[PlainEnd(s, i + 1) + 1] = Close((CHOOSE t \in tags : t.token = s[i + 1]).kind)
    THEN PlainEnd(s, i + 1) + 1
    ELSE 0

\* an anchor written with latitude before longitude
replace_with_swapped_link(t, entity_text) ==
    IF t.lat = "none" \/ t.lon = "none" \/ t.zoom = "none"
    THEN entity_text
    ELSE <<Anchor(t.lon, t.lat, t.zoom)>> \o entity_text \o <<AnchorClose>>

\* lines 36-53
replace_with_html_link(t, entity_text) ==
    IF t.lat = "none" \/ t.lon = "none" \/ t.zoom = "none"
    THEN entity_text
    ELSE <<Anchor(t.lat, t.lon, t.zoom)>> \o entity_text \o <<AnchorClose>>

\* a legacy link at the zoom level "none" would stand for
replace_legacy_without_zoom(t, entity_text) ==
    IF t.lat = "none" \/ t.lon = "none"
    THEN entity_text
    ELSE <<Anchor(t.lat, t.lon, "12")>> \o entity_text \o <<AnchorClose>>

\* lines 61-77
replace_legacy_with_html_link(t, entity_text) ==
    IF t.lat = "none" \/ t.lon = "none"
    THEN entity_text
    ELSE <<Anchor(t.lat, t.lon, LegacyZoom)>> \o entity_text \o <<AnchorClose>>

\* what one pass writes for the match of the opening tag t around entity_text
Replacement(pass, t, entity_text) ==
    CASE pass = "current" -> replace_with_html_link(t, entity_text)
      [] pass = "legacy" -> replace_legacy_with_html_link(t, entity_text)
      [] OTHER -> entity_text                       \* r'\2' and r'\1'

PassTags(pass) ==
    CASE pass = "current" -> CurrentTags
      [] pass = "legacy" -> LegacyTags
      [] pass = "simple" -> SimpleTags
      [] pass = "address" -> AddressTags

\* re.sub(pattern, replacement, s) from position i on
RECURSIVE SubFrom(_, _, _)
SubFrom(pass, s, i) ==
    IF i >= Len(s) THEN <<>>
    ELSE IF TagMatchEnd(PassTags(pass), s, i) > 0
         THEN Replacement(pass, CHOOSE t \in PassTags(pass) : t.token = s[i + 1],
                          SubSeq(s, i + 2, TagMatchEnd(PassTags(pass), s, i) - 1))
              \o SubFrom(pass, s, TagMatchEnd(PassTags(pass), s, i))
         ELSE <<s[i + 1]>> \o SubFrom(pass, s, i + 1)
Sub(pass, s) == SubFrom(pass, s, 0)

transform_xml_to_html_links(s) ==
    Sub("address", Sub("simple", Sub("legacy", Sub("current", s))))

(***************************************************************************)
(* The Renderer on its own: one call of transform_xml_to_html_links on a   *)
(* geocoded text, one step for each of its four substitutions.             *)
(***************************************************************************)
MaxNest == 2

\* the coordinate attributes a geocoded tag carries: all found, one missing, none found
CurrentCoords ==
    {<<"40.7", "-74.0", "12">>, <<"none", "-74.0", "12">>, <<"40.7", "none", "12">>,
     <<"40.7", "-74.0", "none">>, <<"none", "none", "none">>}
LegacyCoords == {<<"40.7", "-74.0">>, <<"none", "-74.0">>, <<"40.7", "none">>}
InputTags ==
    {OpenCurrent(K, c[1], c[2], c[3]) : K \in Kinds, c \in CurrentCoords}
    \cup {OpenLegacy(K, c[1], c[2]) : K \in Kinds, c \in LegacyCoords}
    \cup {OpenSimple(K) : K \in Kinds}
InputWords == {"Evergreen", " "}
\* what a tag with no tag inside it is written around
InputNames == {<<"Evergreen">>, <<"Evergreen", " ", "Evergreen">>}
KindOf(token) == (CHOOSE t \in CurrentTags \cup LegacyTags \cup SimpleTags : t.token = token).kind
Span(token, inner) == <<token>> \o inner \o <<Close(KindOf(token))>>

\* a tag around a name, and a tag around such a tag, to the depth d
RECURSIVE Trees(_)
Trees(d) ==
    {Span(token, name) : token \in InputTags, name \in InputNames}
    \cup (IF d <= 1 THEN {}
          ELSE {Span(token, inner) : token \in InputTags, inner \in Trees(d - 1)})
\* a word or a tag with no tag inside it
Items == {<<w>> : w \in InputWords} \cup Trees(1)
\* one nest of tags, two items side by side, or a tag between two words
RenderTexts ==
    Trees(MaxNest)
    \cup {a \o b : a \in Items, b \in Items}
    \cup {<<w>> \o t \o <<v>> : w \in InputWords, v \in InputWords, t \in Trees(1)}

RenderInit ==
    /\ geocoded_text \in RenderTexts
    /\ html_text = <<>>
    /\ pc = "current"
    /\ mock_mode = TRUE
    /\ text = <<>>
    /\ candidates = <<>>
    /\ idx = 0
    /\ tagged_text = <<>>
    /\ call = NoCall
    /\ invocations = Untraced
    /\ valid = "unknown"
    /\ ConfigIdle

\* line 56
CurrentPass ==
    /\ pc = "current"
    /\ html_text' = Sub("current", geocoded_text)
    /\ pc' = "legacy"
    /\ UNCHANGED <<config_vars, geocoded_text, mock_mode, text, candidates, idx, tagged_text, call, valid, invocations>>

\* line 80
LegacyPass ==
    /\ pc = "legacy"
    /\ html_text' = Sub("legacy", html_text)
    /\ pc' = "simple"
    /\ UNCHANGED <<config_vars, geocoded_text, mock_mode, text, candidates, idx, tagged_text, call, valid, invocations>>

\* line 87
SimplePass ==
    /\ pc = "simple"
    /\ html_text' = Sub("simple", html_text)
    /\ pc' = "address"
    /\ UNCHANGED <<config_vars, geocoded_text, mock_mode, text, candidates, idx, tagged_text, call, valid, invocations>>

\* lines 94-100
AddressPass ==
    /\ pc = "address"
    /\ html_text' = Sub("address", html_text)
    /\ pc' = "rendered"
    /\ UNCHANGED <<config_vars, geocoded_text, mock_mode, text, candidates, idx, tagged_text, call, valid, invocations>>

RenderNext == CurrentPass \/ LegacyPass \/ SimplePass \/ AddressPass

RenderSpec == RenderInit /\ [][RenderNext]_vars

Rendered == pc = "rendered"

\* the text has one tag: the opening tag t at i, its closing tag at j, words elsewhere
OneTagAt(s, t, i, j) ==
    /\ i + 1 < j
    /\ s[i] = t.token
    /\ s[j] = Close(t.kind)
    /\ \A k \in (1..Len(s)) \ {i, j} : s[k] \in InputWords

\* C14: a current-schema tag <K lat=LAT lon=LON zoom_level=Z>TEXT</K> is
\* rendered as TEXT alone when LAT, LON or Z is "none", and otherwise as the
\* anchor to the map viewer with LON before LAT in center and in marker, the
\* level Z and TEXT verbatim; the text around the tag is left as it is.
C14_CurrentTagRendered ==
    Rendered =>
        \A t \in CurrentTags : \A i \in 1..Len(geocoded_text), j \in 1..Len(geocoded_text) :
            OneTagAt(geocoded_text, t, i, j) =>
                html_text =
                    SubSeq(geocoded_text, 1, i - 1)
                    \o (IF t.lat = "none" \/ t.lon = "none" \/ t.zoom = "none"
                        THEN SubSeq(geocoded_text, i + 1, j - 1)
                        ELSE <<"<a href=\"https://www.arcgis.com/apps/mapviewer/index.html?center="
                               \o t.lon \o "," \o t.lat \o "&level=" \o t.zoom
                               \o "&marker=" \o t.lon \o "," \o t.lat
                               \o "\" target=\"_blank\">">>
                             \o SubSeq(geocoded_text, i + 1, j - 1) \o <<"</a>">>)
                    \o SubSeq(geocoded_text, j + 1, Len(geocoded_text))

\* a tag with all three coordinates, between two words, has been rendered as an anchor
C14_Witness ==
    /\ Rendered
    /\ geocoded_text = <<"Evergreen", "<LOC lat=\"40.7\" lon=\"-74.0\" zoom_level=\"12\">",
                         "Evergreen", " ", "Evergreen", "</LOC>", " ">>
    /\ html_text = <<"Evergreen",
                     "<a href=\"https://www.arcgis.com/apps/mapviewer/index.html?center=-74.0,40.7&level=12&marker=-74.0,40.7\" target=\"_blank\">",
                     "Evergreen", " ", "Evergreen", "</a>", " ">>

\* the anchor to the map viewer at (lon, lat) and the level given
LinkTo(lon, lat, level) ==
    "<a href=\"https://www.arcgis.com/apps/mapviewer/index.html?center=" \o lon \o "," \o lat
    \o "&level=" \o level \o "&marker=" \o lon \o "," \o lat \o "\" target=\"_blank\">"

\* no tag of the text stands inside another tag
Flat(s) == \A i \in 1..Len(s) : s[i] \in OpenTokens => i < Len(s) /\ s[i + 1] \in InputWords

\* what a flat text is to be rendered as, token by token: a tag that carries
\* coordinates becomes a link, at its own level when it has one and at level
\* 16 when it has none, and any other tag is dropped
RECURSIVE LinkedFrom(_, _, _)
LinkedFrom(s, i, linked) ==
    IF i > Len(s) THEN <<>>
    ELSE IF \E t \in CurrentTags : t.token = s[i]
    THEN LET t == CHOOSE t \in CurrentTags : t.token = s[i]
         IN  IF "none" \in {t.lat, t.lon, t.zoom}
             THEN LinkedFrom(s, i + 1, FALSE)
             ELSE <<LinkTo(t.lon, t.lat, t.zoom)>> \o LinkedFrom(s, i + 1, TRUE)
    ELSE IF \E t \in LegacyTags : t.token = s[i]
    THEN LET t == CHOOSE t \in LegacyTags : t.token = s[i]
         IN  IF "none" \in {t.lat, t.lon}
             THEN LinkedFrom(s, i + 1, FALSE)
             ELSE <<LinkTo(t.lon, t.lat, "16")>> \o LinkedFrom(s, i + 1, TRUE)
    ELSE IF s[i] \in OpenTokens THEN LinkedFrom(s, i + 1, FALSE)
    ELSE IF s[i] \in CloseTokens
    THEN (IF linked THEN <<"</a>">> ELSE <<>>) \o LinkedFrom(s, i + 1, FALSE)
    ELSE <<s[i]>> \o LinkedFrom(s, i + 1, linked)

\* a tag that carries a zoom_level attribute, or a link the first substitution wrote
OfCurrentSchema(tok) ==
    \/ \E t \in CurrentTags : t.token = tok
    \/ \E la \in Lats, lo \in Lons, z \in Zooms : tok = LinkTo(lo, la, z)
\* a token the legacy substitution neither removes nor writes
NotOfLegacySchema(tok) ==
    \/ OfCurrentSchema(tok)
    \/ tok \in InputWords
    \/ \E t \in SimpleTags : t.token = tok

\* C15: in one call on a text that holds tags of the current and of the
\* legacy schema side by side, each current tag is rendered at its own zoom
\* level and each legacy tag at level 16; and the legacy substitution leaves
\* in place every tag with a zoom_level attribute and everything the
\* current-schema substitution wrote.
C15_DualSchema ==
    /\ [](Rendered /\ Flat(geocoded_text) => html_text = LinkedFrom(geocoded_text, 1, FALSE))
    /\ [][LegacyPass =>
            /\ SelectSeq(html_text', OfCurrentSchema) = SelectSeq(html_text, OfCurrentSchema)
            /\ SelectSeq(html_text', NotOfLegacySchema) = SelectSeq(html_text, NotOfLegacySchema)]_vars

\* a current tag and a legacy tag side by side have been rendered at levels 12 and 16
C15_Witness ==
    /\ Rendered
    /\ geocoded_text = <<"<GPE lat=\"40.7\" lon=\"-74.0\" zoom_level=\"12\">", "Evergreen", "</GPE>",
                         "<LOC lat=\"40.7\" lon=\"-74.0\">", "Evergreen", " ", "Evergreen", "</LOC>">>
    /\ html_text = <<LinkTo("-74.0", "40.7", "12"), "Evergreen", "</a>",
                     LinkTo("-74.0", "40.7", "16"), "Evergreen", " ", "Evergreen", "</a>">>

\* an opening or a closing GPE, LOC or address tag
IsTag(tok) == tok \in OpenTokens \cup CloseTokens

\* C16: after the four substitutions the output holds no opening and no
\* closing GPE, LOC or address tag, whatever the shapes of the tags of the
\* input and however they are nested.
C16_NoTagSurvives ==
    Rendered => \A i \in 1..Len(html_text) : ~IsTag(html_text[i])

(***************************************************************************)
(* The pipeline: tag_addresses_in_text, then the tags are given their      *)
(* coordinate attributes, then transform_xml_to_html_links.  The geocoder  *)
(* is not part of the package; here it finds no coordinates, and either    *)
(* leaves the tags as they are or writes "none" for each attribute.        *)
(***************************************************************************)
NoneTag == OpenCurrent("address", "none", "none", "none")
WithNone(s) == [i \in 1..Len(s) |-> IF s[i] = OpenTag THEN NoneTag ELSE s[i]]

Attach ==
    /\ pc = "done"
    /\ geocoded_text' \in {tagged_text, WithNone(tagged_text)}
    /\ pc' = "current"
    /\ UNCHANGED <<config_vars, html_text, mock_mode, text, candidates, idx, tagged_text, call, valid, invocations>>

PipelineNext == Next \/ Attach \/ RenderNext

PipelineSpec == Init /\ [][PipelineNext]_vars

\* C17: render(tag(text)) with no coordinates attached is the text again.
C17_RoundTrip ==
    Rendered /\ ~HasTags(text) => html_text = text

\* the Validator, called on s and meeting resp, finds a valid address
Validates(s, resp) ==
    \E r \in {parse_address_with_shipengine(mock_mode, s, resp)} :
        ~r.raised /\ Truthy(r.value) /\ ~IsValidRaises(r.value) /\ is_valid_address(r.value)

\* what the offline Validator says of s
ValidOffline(s) ==
    \E v \in {mock_address_validation(s)} : Truthy(v) /\ is_valid_address(v)

MaxCalls == 3

Quote == "\""
\* lexemes of [A-Za-z_][A-Za-z0-9_]*
Identifiers == {"SPACY_MODEL", "spacy_model", "en_core_web_lg", "en_core_web_md", "model"}

\* key.upper()
KeyUpper(k) ==
    CASE k = "spacy_model" -> "SPACY_MODEL"
      [] k = "en_core_web_lg" -> "EN_CORE_WEB_LG"
      [] k = "en_core_web_md" -> "EN_CORE_WEB_MD"
      [] k = "model" -> "MODEL"
      [] OTHER -> k

\* the lexemes of s as one string
RECURSIVE Cat(_)
Cat(s) == IF s = <<>> THEN "" ELSE Head(s) \o Cat(Tail(s))

\* the first position from i on that holds no blank
RECURSIVE SkipBlanks(_, _)
SkipBlanks(s, i) == IF i <= Len(s) /\ s[i] = " " THEN SkipBlanks(s, i + 1) ELSE i
\* the first position from i on that holds a quote
RECURSIVE NextQuote(_, _)
NextQuote(s, i) == IF i <= Len(s) /\ s[i] # Quote THEN NextQuote(s, i + 1) ELSE i

\* lines 28-30: the stripped line is empty or starts with '#'
IsSkipped(line) ==
    SkipBlanks(line, 1) > Len(line) \/ line[SkipBlanks(line, 1)] = "#"

\* LINE_RE.match(line), line 22: where the key, the "=", the quotes and the end are
LineMatch(line) ==
    LET k == SkipBlanks(line, 1)
        e == SkipBlanks(line, k + 1)
        q == SkipBlanks(line, e + 1)
        c == NextQuote(line, q + 1)
    IN  IF /\ k <= Len(line) /\ line[k] \in Identifiers
           /\ e <= Len(line) /\ line[e] = "="
           /\ q <= Len(line) /\ line[q] = Quote
           /\ c <= Len(line) /\ c > q + 1
           /\ SkipBlanks(line, c + 1) = Len(line) + 1
        THEN [ok |-> TRUE, key |-> line[k], value |-> Cat(SubSeq(line, q + 1, c - 1))]
        ELSE [ok |-> FALSE, key |-> "", value |-> ""]

\* cfg[key] = value
Store(cfg, key, value) == {item \in cfg : item[1] # key} \cup {<<key, value>>}

\* lines 25-37, from the line i on
RECURSIVE ParseFrom(_, _, _)
ParseFrom(lines, i, cfg) ==
    IF i > Len(lines) THEN cfg
    ELSE IF IsSkipped(lines[i]) \/ ~LineMatch(lines[i]).ok
         THEN ParseFrom(lines, i + 1, cfg)
         ELSE ParseFrom(lines, i + 1,
                        Store(cfg, KeyUpper(LineMatch(lines[i]).key), LineMatch(lines[i]).value))
parse_config(lines) == ParseFrom(lines, 1, {})

\* the files there can be
ConfigTexts ==
    {<< <<"SPACY_MODEL", " ", "=", " ", Quote, "en_core_web_lg", Quote>> >>,
     << <<"#", " ", "model">>,
        <<" ", "spacy_model", "=", Quote, "en_core_web_md", Quote, " ">> >>,
     << <<"SPACY_MODEL", " ", "=", " ", "en_core_web_lg">> >>,
     << <<"SPACY_MODEL", " ", "=", " ", Quote, Quote>> >>,
     << <<"SPACY_MODEL", "=", Quote, "en_core_web_lg", Quote, " ", "#", " ", "model">> >>,
     << <<"model", " ", "=", " ", Quote, "en_core_web_md", Quote>> >>,
     << <<"SPACY_MODEL", " ", "en_core_web_lg">>,
        <<"SPACY_MODEL", " ", "=", " ", Quote, "en_core_web_md", Quote>> >>,
     <<>>}
ConfigFiles == {Absent, Unreadable} \cup {FileOf(lines) : lines \in ConfigTexts}

\* a load_config that never takes the cache
CacheIgnored(cache, force) == FALSE

\* line 42
CacheHit(cache, force) == cache # None /\ ~force

\* a new dict object
NewDict(cfg) == [kind |-> "dict", id |-> created + 1, map |-> cfg]

Running(t) == thread[t].pc \in {"check", "exists", "read", "assign", "return"}

\* load_config(force) is entered by the thread t
Enter(t, force) ==
    /\ thread' = [thread EXCEPT ![t] = [pc |-> "check", force |-> force,
                                         text |-> <<>>, result |-> None]]
    /\ calls' = calls + 1
    /\ UNCHANGED <<config_cache, config_file, reads, created>>
    /\ UNCHANGED <<tagger_vars, render_vars>>

\* one more call by t, forced or not
Call(t) ==
    /\ thread[t].pc \in {"idle", "returned"}
    /\ model_call[t].pc # "load"
    /\ calls < MaxCalls
    /\ \E force \in BOOLEAN : Enter(t, force)
    /\ UNCHANGED model_call

\* the first load_config() of t
FirstCall(t) ==
    /\ thread[t].pc = "idle"
    /\ Enter(t, FALSE)
    /\ UNCHANGED model_call

\* line 42: the test
Check(t) ==
    /\ thread[t].pc = "check"
    /\ thread' = [thread EXCEPT ![t].pc =
                     IF CacheHit(config_cache, thread[t].force) THEN "return" ELSE "exists"]
    /\ UNCHANGED <<config_cache, config_file, reads, created, calls>>
    /\ UNCHANGED <<tagger_vars, render_vars, model_call>>

\* lines 44-46
Exists(t) ==
    /\ thread[t].pc = "exists"
    /\ IF config_file = Absent
       THEN /\ config_cache' = NewDict({})
            /\ created' = created + 1
            /\ thread' = [thread EXCEPT ![t].pc = "return"]
       ELSE /\ thread' = [thread EXCEPT ![t].pc = "read"]
            /\ UNCHANGED <<config_cache, created>>
    /\ UNCHANGED <<config_file, reads, calls>>
    /\ UNCHANGED <<tagger_vars, render_vars, model_call>>

\* line 49, and lines 51-53 when read_text raises
Read(t) ==
    /\ thread[t].pc = "read"
    /\ reads' = reads + 1
    /\ IF config_file \in {Absent, Unreadable}
       THEN /\ config_cache' = NewDict({})
            /\ created' = created + 1
            /\ thread' = [thread EXCEPT ![t].pc = "return"]
       ELSE /\ thread' = [thread EXCEPT ![t].pc = "assign", ![t].text = config_file.lines]
            /\ UNCHANGED <<config_cache, created>>
    /\ UNCHANGED <<config_file, calls>>
    /\ UNCHANGED <<tagger_vars, render_vars, model_call>>

\* line 50
Assign(t) ==
    /\ thread[t].pc = "assign"
    /\ config_cache' = NewDict(parse_config(thread[t].text))
    /\ created' = created + 1
    /\ thread' = [thread EXCEPT ![t].pc = "return"]
    /\ UNCHANGED <<config_file, reads, calls>>
    /\ UNCHANGED <<tagger_vars, render_vars, model_call>>

\* "return _CONFIG_CACHE", lines 43, 47 and 54: the global is read once more
ReturnCache(t) ==
    /\ thread[t].pc = "return"
    /\ thread' = [thread EXCEPT ![t].pc = "returned", ![t].result = config_cache]
    /\ UNCHANGED <<config_cache, config_file, reads, created, calls>>
    /\ UNCHANGED <<tagger_vars, render_vars, model_call>>

\* the file is written, removed or made unreadable by someone else
ChangeFile ==
    /\ config_file' \in ConfigFiles \ {config_file}
    /\ UNCHANGED <<config_cache, thread, reads, created, calls>>
    /\ UNCHANGED <<tagger_vars, render_vars, model_call>>

\* the package as imported, with some file or none
ConfigInit ==
    /\ config_cache = None
    /\ config_file \in ConfigFiles
    /\ thread = [t \in Threads |-> Idle]
    /\ reads = 0
    /\ created = 0
    /\ calls = 0
    /\ model_call = [t \in Threads |-> NoModelCall]
    /\ mock_mode = TRUE
    /\ text = <<>>
    /\ pc = "config"
    /\ candidates = <<>>
    /\ idx = 0
    /\ tagged_text = <<>>
    /\ call = NoCall
    /\ invocations = Untraced
    /\ valid = "unknown"
    /\ geocoded_text = <<>>
    /\ html_text = <<>>

\* one caller: load_config is called again and again from the thread 1
ConfigNext ==
    \/ Call(1) \/ Check(1) \/ Exists(1) \/ Read(1) \/ Assign(1) \/ ReturnCache(1)
    \/ ChangeFile

ConfigSpec == ConfigInit /\ [][ConfigNext]_vars

\* a multi-threaded host: each thread calls load_config() once, the cache being empty
ConcurrentNext ==
    \/ \E t \in Threads :
          FirstCall(t) \/ Check(t) \/ Exists(t) \/ Read(t) \/ Assign(t) \/ ReturnCache(t)
    \/ ChangeFile

ConcurrentSpec == ConfigInit /\ [][ConcurrentNext]_vars

\* C19: once the cache is filled, a load_config() without force neither reads
\* the file nor replaces the cache, whatever has become of the file: the cache
\* and the count of reads change only in a step of a call that is forced or
\* that found the cache empty; and every call returns the object the cache
\* holds, so that after a forced call the later calls return the reloaded one.
C19_CachedUntilForced ==
    /\ [][config_cache' # config_cache \/ reads' # reads =>
            \E t \in Threads : Running(t) /\ (thread[t].force \/ config_cache = None)]_vars
    /\ [][\A t \in Threads :
            thread[t].pc = "check" /\ thread'[t].pc # "check"
            /\ config_cache # None /\ ~thread[t].force => thread'[t].pc = "return"]_vars
    /\ [](\A t \in Threads :
            thread[t].pc = "returned" => thread[t].result = config_cache /\ config_cache # None)

\* the file was read once, then removed; a second call, without force, has
\* returned the mapping of the first
C19_Witness ==
    /\ thread[1].pc = "returned"
    /\ ~thread[1].force
    /\ calls >= 2
    /\ reads = 1
    /\ created = 1
    /\ config_file = Absent
    /\ thread[1].result = config_cache
    /\ config_cache.map = {<<"SPACY_MODEL", "en_core_web_lg">>}

\* C20: when the threads call load_config() while the cache is empty, the
\* file is read and parsed at most once and the callers all get one object.
C20_InitializedOnce ==
    /\ reads <= 1
    /\ created <= 1
    /\ \A t \in Threads, u \in Threads :
          thread[t].pc = "returned" /\ thread[u].pc = "returned"
          => thread[t].result = thread[u].result

(***************************************************************************)
(* get_spacy_model_name (geo_ner/config.py), called by one thread, the     *)
(* file being changed between the calls only.                              *)
(***************************************************************************)
DEFAULT_SPACY_MODEL == "en_core_web_sm"
Str(v) == [kind |-> "str", v |-> v]
\* the override argument: None, "" or a name
Overrides == {None, Str(""), Str("en_core_web_trf")}
\* "if override", line 65
OverrideGiven(override) == override.kind = "str" /\ override.v # ""

\* cfg.get(key, default)
Get(cfg, key, default) ==
    IF \E item \in cfg : item[1] = key
    THEN (CHOOSE item \in cfg : item[1] = key)[2]
    ELSE default

\* a get_spacy_model_name that does not look at its override
name_without_override(override, cfg) == Get(cfg, "SPACY_MODEL", DEFAULT_SPACY_MODEL)

\* lines 65-73, cfg being what load_config() returns
spacy_model_name(override, cfg) ==
    IF OverrideGiven(override) THEN override.v
    ELSE Get(cfg, "SPACY_MODEL", DEFAULT_SPACY_MODEL)

\* lines 65-67: return the override, or call load_config()
GetModelName(t) ==
    /\ thread[t].pc \in {"idle", "returned"}
    /\ model_call[t].pc # "load"
    /\ calls < MaxCalls
    /\ \E override \in Overrides :
          IF OverrideGiven(override)
          THEN /\ model_call' = [model_call EXCEPT ![t] =
                     [pc |-> "done", override |-> override,
                      model |-> spacy_model_name(override, {})]]
               /\ UNCHANGED <<config_cache, config_file, thread, reads, created, calls>>
               /\ UNCHANGED <<tagger_vars, render_vars>>
          ELSE /\ model_call' = [model_call EXCEPT ![t] =
                     [pc |-> "load", override |-> override, model |-> ""]]
               /\ Enter(t, FALSE)

\* lines 68-73: load_config() has returned
Lookup(t) ==
    /\ model_call[t].pc = "load"
    /\ thread[t].pc = "returned"
    /\ model_call' = [model_call EXCEPT ![t].pc = "done",
                         ![t].model = spacy_model_name(model_call[t].override,
                                                       thread[t].result.map)]
    /\ UNCHANGED <<config_cache, config_file, thread, reads, created, calls>>
    /\ UNCHANGED <<tagger_vars, render_vars>>

\* the file is changed while no call is running
ChangeFileBetweenCalls ==
    /\ \A t \in Threads : ~Running(t) /\ model_call[t].pc # "load"
    /\ ChangeFile

ModelNameNext ==
    \/ GetModelName(1) \/ Lookup(1)
    \/ Call(1) \/ Check(1) \/ Exists(1) \/ Read(1) \/ Assign(1) \/ ReturnCache(1)
    \/ ChangeFileBetweenCalls

ModelNameSpec == ConfigInit /\ [][ModelNameNext]_vars

\* a line that sets SPACY_MODEL: the key in either case, "=", and a value that
\* is not empty between two quotes, with blanks allowed around each of them
SetsModel(line) ==
    \E k \in 1..Len(line), e \in 1..Len(line), q \in 1..Len(line), c \in 1..Len(line) :
        /\ k < e /\ e < q /\ q + 1 < c
        /\ line[k] \in {"SPACY_MODEL", "spacy_model"}
        /\ line[e] = "="
        /\ line[q] = "\"" /\ line[c] = "\""
        /\ \A x \in 1..Len(line) :
              /\ x < k \/ (k < x /\ x < e) \/ (e < x /\ x < q) \/ c < x => line[x] = " "
              /\ q < x /\ x < c => line[x] # "\""

\* the file is missing, unreadable, or has no valid SPACY_MODEL line
GivesNoModel(file) ==
    file.kind = "file" => \A x \in 1..Len(file.lines) : ~SetsModel(file.lines[x])

NoModelKey(cfg) == \A item \in cfg : item[1] # "SPACY_MODEL"

\* get_spacy_model_name has returned to the thread 1, which gave no override
NameFromConfig ==
    model_call[1].pc = "load" /\ model_call'[1].pc = "done"

\* C21 as stated: whenever the file is missing, unreadable or without a valid
\* SPACY_MODEL line, get_spacy_model_name() returns "en_core_web_sm".
C21_DefaultWheneverFileBad ==
    [][NameFromConfig /\ GivesNoModel(config_file) =>
          model_call'[1].model = "en_core_web_sm"]_vars

\* C21: a load that fills the cache from a file that is missing, unreadable
\* or without a valid SPACY_MODEL line, stores a mapping without that key,
\* and nothing raises; load_config returns a mapping; get_spacy_model_name()
\* returns "en_core_web_sm" when the mapping it got has no SPACY_MODEL and
\* the value of that key otherwise; and an override that is not empty is
\* returned whatever the configuration holds.
C21_DefaultWhenLoadedFromBadFile ==
    /\ [][config_cache' # config_cache /\ GivesNoModel(config_file) =>
            config_cache'.kind = "dict" /\ NoModelKey(config_cache'.map)]_vars
    /\ [](thread[1].pc = "returned" => thread[1].result.kind = "dict")
    /\ [][NameFromConfig =>
            model_call'[1].model =
                IF NoModelKey(thread[1].result.map) THEN "en_core_web_sm"
                ELSE (CHOOSE item \in thread[1].result.map : item[1] = "SPACY_MODEL")[2]]_vars
    /\ [](model_call[1].pc = "done" /\ model_call[1].override.kind = "str"
            /\ model_call[1].override.v # ""
          => model_call[1].model = model_call[1].override.v)

\* the cache was filled from a file whose only line has no quotes, and
\* get_spacy_model_name() has returned the default
C21_Witness ==
    /\ model_call[1].pc = "done"
    /\ model_call[1].override = None
    /\ model_call[1].model = "en_core_web_sm"
    /\ config_file = FileOf(<< <<"SPACY_MODEL", " ", "=", " ", "en_core_web_lg">> >>)
    /\ reads = 1
    /\ thread[1].result = config_cache
    /\ config_cache.map = {}

(***************************************************************************)
(* Full-text mode: lines 252-265 and 292-329.                              *)
(***************************************************************************)
\* the entities of es that are address-related and carry both offsets
AddressRelated(es) ==
    {x \in 1..Len(es) : /\ es[x].type \in {"address", "address_line", "city_locality",
                                            "state_province", "postal_code"}
                        /\ es[x].start_index.kind = "num"
                        /\ es[x].end_index.kind = "num"}

\* the substring of s from the least start offset to the greatest end offset
SpanSubstring(es, s) ==
    PySlice(s, Min({es[x].start_index.v : x \in AddressRelated(es)}),
               Max({es[x].end_index.v : x \in AddressRelated(es)}))

\* the entities a valid answer to the whole text carries
EntitiesOf(resp) == parse_address_with_shipengine(mock_mode, text, resp).value.entities

\* what full-text mode returns when the Validator meets resp and the span that is
\* recovered from the entities es is w
FullTextReturns(resp, w) ==
    IF /\ Validates(text, resp)
       /\ AddressRelated(EntitiesOf(resp)) # {}
       /\ HasDigit(w)
       /\ CharLen(w) > 10
    THEN TagIn(text, w)
    ELSE text

UnscannedAddress == CityStateZip \o <<".", " ", "123", " ", "PO", " ", "Street">>

\* the texts of a traced pass: they hold no marker, which no call looks at
PassTexts == TextsOf(Fragments \ {<<OpenTag>>, <<CloseTag>>}) \cup {UnscannedAddress}

PassInit ==
    /\ mock_mode \in BOOLEAN
    /\ text \in PassTexts
    /\ pc = "scan"
    /\ candidates = <<>>
    /\ idx = 0
    /\ tagged_text = <<>>
    /\ call = NoCall
    /\ invocations = Traced
    /\ valid = "unknown"
    /\ geocoded_text = <<>>
    /\ html_text = <<>>
    /\ ConfigIdle

PassSpec == PassInit /\ [][Next]_vars

\* the texts the Validator was called on, in the order of the calls
Submitted == [k \in 1..Len(invocations.calls) |-> invocations.calls[k].text]

\* C23: in a pass that returns, the Validator was called exactly once on each
\* candidate, in scan order, and while the loop runs it was called on the
\* candidates before the current one.  Each call made at most one remote request
\* and at most one offline evaluation, never a second request; a call that made
\* none evaluated offline; and in mock mode no call made a remote request.
C23_OncePerCandidate ==
    /\ Returned /\ candidates # <<>> => Submitted = candidates
    /\ pc = "loop" => Submitted = SubSeq(candidates, 1, idx - 1)
    /\ \A k \in 1..Len(invocations.calls) :
          /\ invocations.calls[k].remote <= 1
          /\ invocations.calls[k].offline <= 1
          /\ invocations.calls[k].remote = 0 => invocations.calls[k].offline = 1
          /\ mock_mode => invocations.calls[k].remote = 0

\* a pass over two candidates or more returned after one call fell back to the
\* offline evaluation and another call was answered
C23_Witness ==
    /\ Returned
    /\ Len(candidates) >= 2
    /\ Submitted = candidates
    /\ \E k \in 1..Len(invocations.calls) :
          invocations.calls[k].remote = 1 /\ invocations.calls[k].offline = 1
    /\ \E k \in 1..Len(invocations.calls) :
          invocations.calls[k].remote = 1 /\ invocations.calls[k].offline = 0

(***************************************************************************)
(* What tagging does to the text: lines 252-290.                           *)
(***************************************************************************)
\* out is inp with markers inserted, open of them being open so far: every lexeme
\* of out is the next lexeme of inp, or an inserted <address>, or an inserted
\* </address> that closes an inserted <address> before it
RECURSIVE InsertedInto(_, _, _)
InsertedInto(out, inp, open) ==
    IF out = <<>> THEN inp = <<>> /\ open = 0
    ELSE \/ inp # <<>> /\ Head(out) = Head(inp) /\ InsertedInto(Tail(out), Tail(inp), open)
         \/ Head(out) = OpenTag /\ InsertedInto(Tail(out), inp, open + 1)
         \/ Head(out) = CloseTag /\ open > 0 /\ InsertedInto(Tail(out), inp, open - 1)

\* s without its markers
Unmarked(s) == SelectSeq(s, LAMBDA x : x \notin {OpenTag, CloseTag})

\* C24: tagging only inserts markers.  From the scan on, whatever the Validator
\* answered, the text-so-far is the input with <address> and </address> markers
\* inserted, every inserted <address> closed by an inserted </address> after it;
\* when the input holds no marker, the output without its markers is the input.
C24_OnlyInsertsMarkers ==
    pc # "scan" =>
        /\ InsertedInto(tagged_text, text, 0)
        /\ ~HasTags(text) => Unmarked(tagged_text) = text

\* a returned text in which two pairs of markers or more were inserted into an
\* input that held markers already
C24_Witness ==
    /\ Returned
    /\ HasTags(text)
    /\ Len(tagged_text) >= Len(text) + 4
    /\ InsertedInto(tagged_text, text, 0)

(***************************************************************************)
(* Full-text mode with the offline validation: lines 133-142, 252-265 and  *)
(* 303-304.                                                                *)
(***************************************************************************)
\* the call on the whole text was answered by the offline validation
FullTextOffline ==
    /\ candidates = <<>>
    /\ Len(invocations.calls) = 1
    /\ invocations.calls[1].offline = 1

\* C25: when the call on the whole text is answered by the offline validation, in
\* mock mode or after a 401, a 402 or a transport error, the pass returns the text
\* as it was, a valid offline result included.
C25_OfflineFullTextUnchanged ==
    FullTextOffline => Returned /\ tagged_text = text

\* a text without candidates that the offline validation finds valid came back
C25_Witness ==
    /\ FullTextOffline
    /\ Returned
    /\ ValidOffline(text)
    /\ tagged_text = text

====
